---------------------------- MODULE Spec2Model ----------------------------
(***************************************************************************)
(* TMS6100 phrase-ROM emulator (Firmware/tms6100/main.c).                  *)
(*                                                                         *)
(* The firmware is two interrupt handlers working on one state record:     *)
(*   ISR(TMS6100_M1_INT_VECT)  LOAD ADDRESS, one nibble per M1 edge        *)
(*   ISR(TMS6100_M0_INT_VECT)  READ DATA: dummy read, start pulse or       *)
(*                             bit clock, one per M0 edge                  *)
(* The handlers run to completion and never nest (AVR clears the global    *)
(* interrupt flag on entry), so each handler is one atomic action.         *)
(***************************************************************************)
EXTENDS Integers, Sequences, FiniteSets

\* ------------------------------------------------------------------------
\* Bounds of the model
\* ------------------------------------------------------------------------

\* Number of bytes the host clocks out of one READ DATA session.
MaxBytes == 2

\* Values the host puts on ADD1..ADD8 while loading an address: the nibbles
\* of the addresses around the banks 1, 2, 3, 5 and 15, with and without the
\* two ignored top bits.  sent is the number of nibbles the host has sent of
\* the address it is loading.
HostNibbles(sent) ==
    IF sent < 3 THEN {0, 15}
    ELSE IF sent = 3 THEN {7, 8, 11, 15}
    ELSE {0, 1, 15}

\* ------------------------------------------------------------------------
\* The PHROM image (romdata_*.h): the bank this PHROM answers to and its
\* 16K data table.
\* ------------------------------------------------------------------------

\* PHROM_BANK is fixed when the firmware is built; the builds checked are the
\* one for bank 2 and the one for bank 0.
VARIABLE phromBank

PhromBanks == {0, 2}

PHROM_BANK == phromBank

phromData(localAddress) ==
    LET image == <<163, 44, 15, 150, 91>>
    IN  image[(localAddress % 5) + 1]

\* ------------------------------------------------------------------------
\* C integer operators on uint32_t / uint8_t values
\* ------------------------------------------------------------------------

RECURSIVE BitAnd(_, _)
BitAnd(a, b) ==
    IF a = 0 \/ b = 0 THEN 0
    ELSE (a % 2) * (b % 2) + 2 * BitAnd(a \div 2, b \div 2)

RECURSIVE BitOr(_, _)
BitOr(a, b) ==
    IF a = 0 THEN b
    ELSE IF b = 0 THEN a
    ELSE (IF a % 2 = 1 \/ b % 2 = 1 THEN 1 ELSE 0) + 2 * BitOr(a \div 2, b \div 2)

\* No shift of the firmware leaves 32 bits: 1 << currentBit is below 2^8 and
\* addressNibble << 16 below 2^20.
ShiftLeft(a, k) == a * (2 ^ k)

ShiftRight(a, k) == a \div (2 ^ k)

\* ------------------------------------------------------------------------
\* State
\* ------------------------------------------------------------------------

VARIABLES
    \* struct tms6100State
    address,                \* uint32_t
    bankSelectNumber,       \* uint32_t
    loadAddressNibble,      \* uint8_t
    validAddressLoadedFlag, \* FALSE / TRUE
    readDataActive,         \* FALSE / TRUE
    currentBit,             \* uint8_t
    currentByte,            \* uint8_t
    add8InputFlag,          \* FALSE / TRUE
    bankActiveFlag,         \* FALSE / TRUE
    \* AVR registers
    add8Ddr,                \* TMS6100_ADD8_DDR bit: TRUE = output (line driven)
    add8Port,               \* TMS6100_ADD8_PORT bit: level driven when output
    m0Sense,                \* EICRA ISC bits of M0: "falling" or "rising"
    m0Flag,                 \* EIFR INTF bit of M0: an M0 edge is latched
    \* History of the host's events (not read by the firmware)
    nibbleLog,              \* nibbles the host has sent of the address it is loading, or has loaded
    busLog,                 \* state of ADD8 after each clock pulse of the latest byte
    clockCount,             \* clock pulses handled in this session
    sessionStart,           \* address at the start pulse of this session
    lastEvent,              \* handler that ran last
    cancelledActive,        \* readDataActive when the last LOAD ADDRESS arrived
    cancelledDriving,       \* ADD8 was driven when the last LOAD ADDRESS arrived
    cancelledPending,       \* a clock edge of the session was latched when the last LOAD ADDRESS cancelled it
    discarded,              \* nibbles thrown away by the last dummy read
    afterDiscard            \* the address being loaded, or loaded, follows a dummy read that threw nibbles away

deviceVars == <<address, bankSelectNumber, loadAddressNibble, validAddressLoadedFlag,
                readDataActive, currentBit, currentByte, add8InputFlag, bankActiveFlag>>

pinVars == <<add8Ddr, add8Port>>

irqVars == <<m0Sense, m0Flag>>

historyVars == <<nibbleLog, busLog, clockCount, sessionStart, lastEvent,
                 cancelledActive, cancelledDriving, cancelledPending, discarded,
                 afterDiscard>>

vars == <<phromBank, deviceVars, pinVars, irqVars, historyVars>>

\* ------------------------------------------------------------------------
\* Helpers shared by the handlers
\* ------------------------------------------------------------------------

\* CurrentBank with a mask of two bits, 0x0C000.
CurrentBank_TwoBits(addr) == ShiftRight(BitAnd(addr, 49152), 14)

\* currentBank = (address & 0x3C000) >> 14
CurrentBank(addr) == ShiftRight(BitAnd(addr, 245760), 14)

\* LocalAddress without the mask: the bank bits stay in the table index.
LocalAddress_NoMask(addr) == addr

\* localAddress = (address & 0x3FFF)
LocalAddress(addr) == BitAnd(addr, 16383)

\* "Get the next byte to transmit": the byte and bank flag for an address.
FetchByte(addr) ==
    IF CurrentBank(addr) = PHROM_BANK
    THEN [byte |-> phromData(LocalAddress(addr)), active |-> TRUE]
    ELSE [byte |-> 255, active |-> FALSE]

\* DataBit sending the most significant bit first.
DataBit_MsbFirst(byte, bit) == IF BitAnd(byte, ShiftLeft(1, 7 - bit)) = 0 THEN 0 ELSE 1

\* dataBit: bit currentBit of currentByte
DataBit(byte, bit) == IF BitAnd(byte, ShiftLeft(1, bit)) = 0 THEN 0 ELSE 1

\* StoreNibble without the clear of the first nibble: the new address is ORed
\* onto the old one.
StoreNibble_NoClear(addr, index, nibble) ==
    IF index \in 0..4 THEN BitOr(addr, ShiftLeft(nibble, 4 * index))
    ELSE addr

\* Clear the address register on the first nibble and OR the nibble in.
StoreNibble(addr, index, nibble) ==
    LET cleared == IF index = 0 THEN 0 ELSE addr
    IN  IF index \in 0..4 THEN BitOr(cleared, ShiftLeft(nibble, 4 * index))
        ELSE cleared

\* ------------------------------------------------------------------------
\* initialiseHardware() and main()
\* ------------------------------------------------------------------------

Init ==
    /\ phromBank \in PhromBanks
    /\ address = 0
    /\ bankSelectNumber = 0
    /\ loadAddressNibble = 0
    /\ validAddressLoadedFlag = FALSE
    /\ readDataActive = FALSE
    /\ currentBit = 0
    /\ currentByte = 0
    /\ add8InputFlag = TRUE
    /\ bankActiveFlag = FALSE
    /\ add8Ddr = FALSE
    /\ add8Port = 0
    /\ m0Sense = "falling"
    /\ m0Flag = FALSE
    /\ nibbleLog = <<>>
    /\ busLog = <<>>
    /\ clockCount = 0
    /\ sessionStart = 0
    /\ lastEvent = "reset"
    /\ cancelledActive = FALSE
    /\ cancelledDriving = FALSE
    /\ cancelledPending = FALSE
    /\ discarded = 0
    /\ afterDiscard = FALSE

\* ------------------------------------------------------------------------
\* The host
\* ------------------------------------------------------------------------

\* The host puts an edge of the armed polarity on M0; the AVR latches it.
\* The host clocks at most MaxBytes bytes out of a session.
M0Edge ==
    /\ ~m0Flag
    /\ readDataActive => clockCount < 8 * MaxBytes
    /\ m0Flag' = TRUE
    /\ UNCHANGED <<phromBank, deviceVars, pinVars, m0Sense, historyVars>>

\* ------------------------------------------------------------------------
\* ISR(TMS6100_M0_INT_VECT)
\* ------------------------------------------------------------------------

\* ClockDrive that never turns ADD8 into an output: the direction is left as
\* the start of the session found it.
ClockDrive_NeverOutput ==
    LET toInput == ~bankActiveFlag /\ ~add8InputFlag
    IN  /\ add8Ddr' = (IF toInput THEN FALSE ELSE add8Ddr)
        /\ add8InputFlag' = (IF toInput THEN TRUE ELSE add8InputFlag)
        /\ add8Port' = (IF bankActiveFlag THEN DataBit(currentByte, currentBit)
                        ELSE IF toInput THEN 0 ELSE add8Port)

\* readDataActive == TRUE, first half: ADD8 follows bankActiveFlag and, when
\* this PHROM's bank is active, carries bit currentBit of currentByte.
ClockDrive ==
    LET toOutput == bankActiveFlag /\ add8InputFlag
        toInput  == ~bankActiveFlag /\ ~add8InputFlag
        ddr1     == IF toOutput THEN TRUE ELSE IF toInput THEN FALSE ELSE add8Ddr
        port1    == IF toInput THEN 0 ELSE add8Port
    IN  /\ add8Ddr' = ddr1
        /\ add8InputFlag' = (IF toOutput THEN FALSE ELSE IF toInput THEN TRUE
                             ELSE add8InputFlag)
        /\ add8Port' = (IF bankActiveFlag THEN DataBit(currentByte, currentBit) ELSE port1)

\* ClockAdvance that keeps the incremented address within 18 bits.
ClockAdvance_Masked ==
    LET bit1  == (currentBit + 1) % 256
        addr1 == (address + 1) % 262144
        next  == FetchByte(addr1)
    IN  /\ IF bit1 > 7
           THEN /\ currentBit' = 0
                /\ address' = addr1
                /\ currentByte' = next.byte
                /\ bankActiveFlag' = next.active
           ELSE /\ currentBit' = bit1
                /\ UNCHANGED <<address, currentByte, bankActiveFlag>>
        /\ UNCHANGED readDataActive

\* ClockAdvance that ends the byte one bit late (currentBit > 8).
ClockAdvance_NineBits ==
    LET bit1  == (currentBit + 1) % 256
        next  == FetchByte(address + 1)
    IN  /\ IF bit1 > 8
           THEN /\ currentBit' = 0
                /\ address' = address + 1
                /\ currentByte' = next.byte
                /\ bankActiveFlag' = next.active
           ELSE /\ currentBit' = bit1
                /\ UNCHANGED <<address, currentByte, bankActiveFlag>>
        /\ UNCHANGED readDataActive

\* ClockAdvance that ends the byte one bit early (currentBit >= 7).
ClockAdvance_SevenBits ==
    LET bit1  == (currentBit + 1) % 256
        next  == FetchByte(address + 1)
    IN  /\ IF bit1 >= 7
           THEN /\ currentBit' = 0
                /\ address' = address + 1
                /\ currentByte' = next.byte
                /\ bankActiveFlag' = next.active
           ELSE /\ currentBit' = bit1
                /\ UNCHANGED <<address, currentByte, bankActiveFlag>>
        /\ UNCHANGED readDataActive

\* ClockAdvance that ends the session when the address leaves the bank.
ClockAdvance_EndsOutOfBank ==
    LET bit1  == (currentBit + 1) % 256
        next  == FetchByte(address + 1)
    IN  IF bit1 > 7
        THEN /\ currentBit' = 0
             /\ address' = address + 1
             /\ currentByte' = next.byte
             /\ bankActiveFlag' = next.active
             /\ readDataActive' = next.active
        ELSE /\ currentBit' = bit1
             /\ UNCHANGED <<address, currentByte, bankActiveFlag, readDataActive>>

\* readDataActive == TRUE, second half: point to the next bit; at the end of
\* the byte increment the address and get the next byte to transmit.
ClockAdvance ==
    LET bit1  == (currentBit + 1) % 256
        addr1 == address + 1   \* at most 0x3FFFF + MaxBytes, far from 2^32
        next  == FetchByte(addr1)
    IN  /\ IF bit1 > 7
           THEN /\ currentBit' = 0
                /\ address' = addr1
                /\ currentByte' = next.byte
                /\ bankActiveFlag' = next.active
           ELSE /\ currentBit' = bit1
                /\ UNCHANGED <<address, currentByte, bankActiveFlag>>
        /\ UNCHANGED readDataActive

M0_ClockPulse ==
    /\ ClockDrive
    /\ ClockAdvance
    /\ UNCHANGED <<bankSelectNumber, loadAddressNibble, validAddressLoadedFlag, m0Sense>>
    /\ LET sample == [out |-> add8Ddr', bit |-> add8Port']
       IN  busLog' = (IF clockCount % 8 = 0 THEN <<sample>> ELSE Append(busLog, sample))
    /\ clockCount' = clockCount + 1
    /\ lastEvent' = "clock"
    /\ UNCHANGED <<nibbleLog, sessionStart, cancelledActive, cancelledDriving,
                   cancelledPending, discarded, afterDiscard>>

\* M0_DummyRead that clears the nibble counter and leaves the address.
M0_DummyRead_KeepAddress ==
    /\ loadAddressNibble' = 0
    /\ UNCHANGED <<address, bankSelectNumber, validAddressLoadedFlag, readDataActive,
                   currentBit, currentByte, add8InputFlag, bankActiveFlag, pinVars,
                   m0Sense>>
    /\ nibbleLog' = <<>>
    /\ discarded' = Len(nibbleLog)
    /\ lastEvent' = "dummy"
    /\ cancelledActive' = FALSE
    /\ cancelledDriving' = FALSE
    /\ cancelledPending' = FALSE
    /\ afterDiscard' = FALSE
    /\ UNCHANGED <<busLog, clockCount, sessionStart>>

\* M0_DummyRead that clears the address and leaves the nibble counter.
M0_DummyRead_KeepCounter ==
    /\ address' = 0
    /\ UNCHANGED <<bankSelectNumber, loadAddressNibble, validAddressLoadedFlag,
                   readDataActive, currentBit, currentByte, add8InputFlag,
                   bankActiveFlag, pinVars, m0Sense>>
    /\ nibbleLog' = <<>>
    /\ discarded' = Len(nibbleLog)
    /\ lastEvent' = "dummy"
    /\ cancelledActive' = FALSE
    /\ cancelledDriving' = FALSE
    /\ cancelledPending' = FALSE
    /\ afterDiscard' = FALSE
    /\ UNCHANGED <<busLog, clockCount, sessionStart>>

\* No valid address: 'dummy' read, reset the TMS6100 to a known state.
M0_DummyRead ==
    /\ address' = 0
    /\ loadAddressNibble' = 0
    /\ UNCHANGED <<bankSelectNumber, validAddressLoadedFlag, readDataActive, currentBit,
                   currentByte, add8InputFlag, bankActiveFlag, pinVars, m0Sense>>
    /\ nibbleLog' = <<>>
    /\ discarded' = Len(nibbleLog)
    /\ lastEvent' = "dummy"
    /\ cancelledActive' = FALSE
    /\ cancelledDriving' = FALSE
    /\ cancelledPending' = FALSE
    /\ afterDiscard' = FALSE
    /\ UNCHANGED <<busLog, clockCount, sessionStart>>

\* Valid address: 'real' READ DATA command, fetch the first byte.
M0_StartPulse ==
    LET first == FetchByte(address)
    IN  /\ readDataActive' = TRUE
        /\ currentByte' = first.byte
        /\ currentBit' = 0
        /\ bankActiveFlag' = first.active
        /\ m0Sense' = "rising"
        /\ UNCHANGED <<address, bankSelectNumber, loadAddressNibble, validAddressLoadedFlag,
                       add8InputFlag, pinVars>>
        /\ sessionStart' = address
        /\ clockCount' = 0
        /\ busLog' = <<>>
        /\ lastEvent' = "start"
        /\ afterDiscard' = FALSE
        /\ UNCHANGED <<nibbleLog, cancelledActive, cancelledDriving, cancelledPending,
                       discarded>>

\* M0_ISR that takes every READ DATA outside a session for a start pulse.
M0_ISR_NoDummyCheck ==
    /\ m0Flag
    /\ m0Flag' = FALSE
    /\ UNCHANGED phromBank
    /\ IF readDataActive THEN M0_ClockPulse ELSE M0_StartPulse

M0_ISR ==
    /\ m0Flag
    /\ m0Flag' = FALSE
    /\ UNCHANGED phromBank
    /\ IF readDataActive THEN M0_ClockPulse
       ELSE IF ~validAddressLoadedFlag THEN M0_DummyRead
       ELSE M0_StartPulse

\* ------------------------------------------------------------------------
\* ISR(TMS6100_M1_INT_VECT)
\* ------------------------------------------------------------------------

\* CancelReadData that leaves the bank flag of the cancelled session.
CancelReadData_KeepBank ==
    /\ readDataActive' = FALSE
    /\ UNCHANGED bankActiveFlag

\* "Cancel the read data command"
CancelReadData ==
    /\ readDataActive' = FALSE
    /\ bankActiveFlag' = FALSE

\* RearmM0 that leaves M0 on the edge of the cancelled session.
RearmM0_KeepSense ==
    /\ UNCHANGED m0Sense
    /\ m0Flag' = FALSE

\* RearmM0 that does not clear the interrupt flag.
RearmM0_KeepPending ==
    /\ m0Sense' = "falling"
    /\ UNCHANGED m0Flag

\* M0 interrupts on the falling edge again, and no M0 interrupt is pending.
RearmM0 ==
    /\ m0Sense' = "falling"
    /\ m0Flag' = FALSE

\* ReleaseAdd8 that updates the flag and forgets the pin registers.
ReleaseAdd8_FlagOnly ==
    /\ add8InputFlag' = TRUE
    /\ UNCHANGED <<add8Ddr, add8Port>>

\* "Set the ADD8 bus pin to input mode"
ReleaseAdd8 ==
    IF ~add8InputFlag
    THEN /\ add8Ddr' = FALSE
         /\ add8Port' = 0
         /\ add8InputFlag' = TRUE
    ELSE UNCHANGED <<add8Ddr, add8Port, add8InputFlag>>

\* MaskAddress that keeps all 20 bits sent by the host.
MaskAddress_NoMask(addr) == addr

\* The address is 18 bits: address & 0x3FFFF
MaskAddress(addr) == BitAnd(addr, 262143)

M1_ISR(addressNibble) ==
    LET addr1  == StoreNibble(address, loadAddressNibble, addressNibble)
        index1 == (loadAddressNibble + 1) % 256
    IN  /\ CancelReadData
        /\ RearmM0
        /\ ReleaseAdd8
        \* the 5th nibble completes the address
        /\ IF index1 > 4
           THEN /\ validAddressLoadedFlag' = TRUE
                /\ loadAddressNibble' = 0
                /\ bankSelectNumber' = CurrentBank(addr1)
                /\ address' = MaskAddress(addr1)
           ELSE /\ validAddressLoadedFlag' = FALSE
                /\ loadAddressNibble' = index1
                /\ address' = addr1
                /\ UNCHANGED bankSelectNumber
        /\ UNCHANGED <<phromBank, currentBit, currentByte>>
        /\ nibbleLog' = (IF Len(nibbleLog) = 5 THEN <<addressNibble>>
                         ELSE Append(nibbleLog, addressNibble))
        /\ busLog' = <<>>
        /\ clockCount' = 0
        /\ sessionStart' = 0
        /\ lastEvent' = "load"
        /\ cancelledActive' = readDataActive
        /\ cancelledDriving' = add8Ddr
        /\ cancelledPending' = (readDataActive /\ m0Flag)
        /\ discarded' = 0
        /\ afterDiscard' = (Len(nibbleLog) < 5 /\ (afterDiscard \/ discarded > 0))

\* ------------------------------------------------------------------------
\* Specification
\* ------------------------------------------------------------------------

Next ==
    \/ M0Edge
    \/ M0_ISR
    \/ \E addressNibble \in HostNibbles(Len(nibbleLog) % 5) : M1_ISR(addressNibble)

Spec == Init /\ [][Next]_vars

\* ------------------------------------------------------------------------
\* What the properties below compare the firmware with: plain arithmetic on
\* the host's nibbles and on addresses.
\* ------------------------------------------------------------------------

\* n0 | n1<<4 | n2<<8 | n3<<12 | n4<<16 of five nibbles
Accumulated(log) ==
    log[1] + 16 * log[2] + 256 * log[3] + 4096 * log[4] + 65536 * log[5]

\* bits 17..14 and bits 13..0 of an address
BankBits(a) == (a \div 16384) % 16

OffsetBits(a) == a % 16384

InBank(a) == BankBits(a) = PHROM_BANK

\* bit i of a byte, bit 0 the least significant
BitOf(byte, i) == (byte \div (2 ^ i)) % 2

\* ADD8 is driven / released, in the pin register and in the firmware's flag
Driven == add8Ddr

Released == ~add8Ddr /\ add8InputFlag

\* ------------------------------------------------------------------------
\* C1: five consecutive LOAD ADDRESS events n0..n4, the first one arriving
\* with loadAddressNibble = 0, leave address = the accumulation of the five
\* nibbles masked to 18 bits, bankSelectNumber = bits 14..17 of the
\* accumulation, the address valid and loadAddressNibble = 0, whatever the
\* address was before.  (The host's count of nibbles and the firmware's
\* agree, so the host's first nibble is the one that finds the counter 0.)
\* ------------------------------------------------------------------------
C1_FiveNibblesLoadAddress ==
    /\ loadAddressNibble = Len(nibbleLog) % 5
    /\ (lastEvent = "load" /\ Len(nibbleLog) = 5) =>
          /\ address = Accumulated(nibbleLog) % 262144
          /\ bankSelectNumber = (Accumulated(nibbleLog) \div 16384) % 16
          /\ validAddressLoadedFlag
          /\ loadAddressNibble = 0

\* The load F,F,F,B,F: 0xFBFFF is stored as 0x3BFFF, bank 14.
C1_Witness ==
    /\ lastEvent = "load"
    /\ nibbleLog = <<15, 15, 15, 11, 15>>
    /\ address = 245759
    /\ bankSelectNumber = 14

\* ------------------------------------------------------------------------
\* C2: the start pulse drives nothing, and the clock pulses of a byte in
\* this PHROM's bank drive ADD8 to bits 0, 1, ..., 7 of the fetched byte, in
\* that order; the first clocked bit is bit 0 of phromData at the offset of
\* the loaded address.
\* ------------------------------------------------------------------------
C2_BitsLsbFirst ==
    /\ lastEvent = "start" => (Released /\ busLog = <<>>)
    /\ (readDataActive /\ clockCount > 0) =>
          LET done     == IF clockCount % 8 = 0 THEN 8 ELSE clockCount % 8
              byteAddr == sessionStart + (clockCount - 1) \div 8
          IN  InBank(byteAddr) =>
                 /\ Len(busLog) = done
                 /\ \A i \in 1..done :
                       busLog[i] = [out |-> TRUE,
                                    bit |-> BitOf(phromData(OffsetBits(byteAddr)), i - 1)]

\* The 8 bits of phromData[0] = 163 sent from address 0x08000.
C2_Witness ==
    /\ readDataActive
    /\ sessionStart = 32768
    /\ clockCount = 8
    /\ [i \in 1..8 |-> busLog[i].bit] = <<1, 1, 0, 0, 0, 1, 0, 1>>

\* ------------------------------------------------------------------------
\* C3: every LOAD ADDRESS event, at any bit position of a session and
\* whatever the other fields hold, ends with readDataActive = FALSE,
\* bankActiveFlag = FALSE and ADD8 released to input.
\* ------------------------------------------------------------------------
C3_LoadAddressCancels ==
    lastEvent = "load" => (~readDataActive /\ ~bankActiveFlag /\ Released)

\* A LOAD ADDRESS arrives after bit 4 of a byte this PHROM is driving.
C3_Witness ==
    /\ lastEvent = "load"
    /\ cancelledActive
    /\ cancelledDriving
    /\ currentBit = 5
    /\ Released

\* ------------------------------------------------------------------------
\* C4: whenever ADD8 is driven, bits 17..14 of address are this PHROM's
\* bank: the clock pulse that moves the address out of the bank releases
\* ADD8 itself.
\* ------------------------------------------------------------------------
C4_DrivenOnlyInBank == Driven => InBank(address)

\* ------------------------------------------------------------------------
\* C5: a READ DATA event handled while no address is valid (and no session
\* is active) neither drives ADD8 nor changes its direction, and leaves
\* address = 0, loadAddressNibble = 0, the address invalid and no session.
\* ------------------------------------------------------------------------
C5_DummyReadResets ==
    [][ (m0Flag /\ ~m0Flag' /\ ~readDataActive /\ ~validAddressLoadedFlag
           /\ lastEvent' # "load")
        => /\ UNCHANGED <<add8Ddr, add8Port, add8InputFlag>>
           /\ ~add8Ddr'
           /\ address' = 0
           /\ loadAddressNibble' = 0
           /\ ~validAddressLoadedFlag'
           /\ ~readDataActive' ]_vars

\* A dummy read has thrown 3 nibbles of an address away.
C5_Witness ==
    /\ lastEvent = "dummy"
    /\ discarded = 3
    /\ address = 0
    /\ loadAddressNibble = 0

\* ------------------------------------------------------------------------
\* C6: in a session started outside this PHROM's bank the start pulse sets
\* bankActiveFlag = FALSE and currentByte = 0xFF, and while the address has
\* stayed outside the bank since the start no clock pulse makes ADD8 an
\* output or drives it.
\* ------------------------------------------------------------------------
C6_ForeignBankNeverDriven ==
    (readDataActive /\ \A a \in sessionStart..address : ~InBank(a)) =>
        /\ ~bankActiveFlag
        /\ currentByte = 255
        /\ Released
        /\ \A i \in DOMAIN busLog : ~busLog[i].out

\* The 8 clock pulses of the byte at 0x17000, bank 5.
C6_Witness ==
    /\ readDataActive
    /\ sessionStart = 94208
    /\ BankBits(sessionStart) = 5
    /\ clockCount = 8
    /\ Len(busLog) = 8

\* ------------------------------------------------------------------------
\* C7: a session, once started, stays active across every READ DATA event;
\* only a LOAD ADDRESS event ends it.
\* ------------------------------------------------------------------------
C7_OnlyLoadAddressEndsSession ==
    [][ readDataActive => (readDataActive' \/ lastEvent' = "load") ]_vars

\* Two bytes clocked from 0x0BFFF: the session went over the bank boundary.
C7_Witness ==
    /\ readDataActive
    /\ sessionStart = 49151
    /\ clockCount = 16
    /\ ~InBank(address)

\* ------------------------------------------------------------------------
\* C8: with PHROM_BANK = 2, the nibbles 0,0,0,8,0 leave bankSelectNumber = 2
\* and the stored address 0x00000; the start pulse that follows sets
\* bankActiveFlag and currentByte = phromData[0].
\* ------------------------------------------------------------------------
C8_ScenarioAddressZero ==
    (PHROM_BANK = 2 /\ nibbleLog = <<0, 0, 0, 8, 0>> /\ lastEvent \in {"load", "start"}) =>
        /\ bankSelectNumber = 2
        /\ address = 0
        /\ lastEvent = "start" => (bankActiveFlag /\ currentByte = phromData(0))

\* C8 as the firmware has it: the mask keeps the bank bits, so the stored
\* address is 0x08000 (bank 2, offset 0).
C8_ScenarioAddress8000 ==
    (PHROM_BANK = 2 /\ nibbleLog = <<0, 0, 0, 8, 0>> /\ lastEvent \in {"load", "start"}) =>
        /\ bankSelectNumber = 2
        /\ address = 32768
        /\ lastEvent = "start" => (bankActiveFlag /\ currentByte = phromData(0))

C8_Witness ==
    /\ nibbleLog = <<0, 0, 0, 8, 0>>
    /\ lastEvent = "start"
    /\ bankActiveFlag
    /\ currentByte = 163

\* ------------------------------------------------------------------------
\* C9: bankActiveFlag is TRUE if and only if bits 17..14 of address are
\* this PHROM's bank.
\* ------------------------------------------------------------------------
C9_BankFlagIffInBank == bankActiveFlag <=> InBank(address)

\* C9 as the firmware has it: the equivalence holds during a session; with
\* no session active the flag is FALSE whatever the address.
C9_BankFlagIffInBankInSession ==
    /\ readDataActive => (bankActiveFlag <=> InBank(address))
    /\ ~readDataActive => ~bankActiveFlag

\* The 8th clock pulse of the byte at 0x0BFFF has driven bit 7 and moved the
\* address to 0x0C000, bank 3: the flag is FALSE.
C9_Witness ==
    /\ readDataActive
    /\ sessionStart = 49151
    /\ clockCount = 8
    /\ ~bankActiveFlag
    /\ busLog[8].out

\* ------------------------------------------------------------------------
\* C10: in a session started at address A, after 8k clock pulses
\* address = A + k and currentBit = 0 (the address moves only on every 8th
\* pulse, by 1), and currentByte = phromData[(A+k) mod 2^14] with
\* bankActiveFlag TRUE if bits 17..14 of A+k are this PHROM's bank, else
\* currentByte = 0xFF with bankActiveFlag FALSE.
\* ------------------------------------------------------------------------
C10_AddressFollowsClock ==
    readDataActive =>
        /\ address = sessionStart + clockCount \div 8
        /\ currentBit = clockCount % 8
        /\ IF InBank(address)
           THEN bankActiveFlag /\ currentByte = phromData(OffsetBits(address))
           ELSE ~bankActiveFlag /\ currentByte = 255

\* Two bytes clocked from 0x08FFF: the third byte, phromData[0x1001], is
\* fetched.
C10_Witness ==
    /\ readDataActive
    /\ sessionStart = 36863
    /\ clockCount = 16
    /\ address = 36865
    /\ currentByte = phromData(4097)

\* ------------------------------------------------------------------------
\* C11: when a session started outside this PHROM's bank increments its
\* address into the bank, ADD8 is still released after that (8th) pulse, and
\* the very next clock pulse makes ADD8 an output and drives bit 0 of
\* phromData at the offset of the new address; every bit of the new byte is
\* driven, none is sent while ADD8 is released.
\* ------------------------------------------------------------------------
C11_EnteringBankDrivesFirstBit ==
    LET byteAddr == sessionStart + (clockCount - 1) \div 8
        done     == clockCount % 8
    IN  (readDataActive /\ clockCount >= 8
           /\ (\A a \in sessionStart..(address - 1) : ~InBank(a)) /\ InBank(address)) =>
            IF done = 0
            THEN \* the 8th pulse of the last foreign byte has just been handled
                 /\ Released
                 /\ bankActiveFlag
                 /\ \A i \in DOMAIN busLog : ~busLog[i].out
            ELSE \* done bits of the first byte in the bank have been clocked
                 /\ Driven
                 /\ byteAddr = address
                 /\ Len(busLog) = done
                 /\ busLog[1] = [out |-> TRUE,
                                 bit |-> BitOf(phromData(OffsetBits(address)), 0)]
                 /\ \A i \in 1..done : busLog[i].out

\* Bank 2: from 0x07FFF (bank 1) the 9th clock pulse drives bit 0 of phromData[0].
C11_Witness ==
    /\ PHROM_BANK = 2
    /\ readDataActive
    /\ sessionStart = 32767
    /\ clockCount = 9
    /\ Driven
    /\ busLog = << [out |-> TRUE, bit |-> 1] >>

\* ------------------------------------------------------------------------
\* C12: the increment at a byte boundary is not masked: a session started
\* at 0x3FFFF reaches address 0x40000 after 8 clock pulses, the bank is
\* still taken from bits 17..14 (bank 0, offset 0), and address returns to
\* at most 0x3FFFF only when the next 5-nibble LOAD ADDRESS completes.
\* ------------------------------------------------------------------------
C12_GrowthState ==
    /\ (readDataActive /\ sessionStart = 262143 /\ clockCount = 8) => address = 262144
    /\ (readDataActive /\ address = 262144) =>
          IF PHROM_BANK = 0
          THEN bankActiveFlag /\ currentByte = phromData(0)
          ELSE ~bankActiveFlag /\ currentByte = 255
    /\ address > 262143 => readDataActive

C12_UnmaskedUntilLoadCompletes ==
    /\ []C12_GrowthState
    /\ [][ (address > 262143 /\ address' <= 262143)
           => (lastEvent' = "load" /\ validAddressLoadedFlag') ]_vars

\* C12 as the firmware has it: the first LOAD ADDRESS event after the
\* session clears the address register before it stores its nibble, so the
\* address is back below 0x40000 (below 16, in fact) after that one event.
C12_UnmaskedUntilNextLoad ==
    /\ []C12_GrowthState
    /\ [][ (address > 262143 /\ address' <= 262143)
           => (lastEvent' = "load" /\ address' < 16 /\ loadAddressNibble' = 1) ]_vars
    /\ [][ (address > 262143 /\ lastEvent' = "load" /\ nibbleLog' # nibbleLog)
           => address' < 16 ]_vars

\* Bank 0: the byte at 0x40000 is this PHROM's byte 0, and its first bit is
\* being driven.
C12_Witness ==
    /\ PHROM_BANK = 0
    /\ readDataActive
    /\ sessionStart = 262143
    /\ address = 262144
    /\ clockCount = 9
    /\ bankActiveFlag
    /\ Driven

\* ------------------------------------------------------------------------
\* C13: a READ DATA event arriving after 1 to 4 nibbles of an address load
\* discards the partial load (address = 0, loadAddressNibble = 0, no
\* session); the address becomes valid again only after 5 further
\* consecutive LOAD ADDRESS events, and is built from those 5 nibbles alone.
\* ------------------------------------------------------------------------
C13_PartialLoadDiscarded ==
    /\ (lastEvent = "dummy" /\ discarded \in 1..4) =>
          /\ address = 0
          /\ loadAddressNibble = 0
          /\ ~validAddressLoadedFlag
          /\ ~readDataActive
    /\ afterDiscard =>
          /\ validAddressLoadedFlag <=> Len(nibbleLog) = 5
          /\ loadAddressNibble = Len(nibbleLog) % 5
          /\ address = LET k == Len(nibbleLog)
                           padded == nibbleLog \o [i \in 1..(5 - k) |-> 0]
                       IN  IF k = 5 THEN Accumulated(padded) % 262144
                           ELSE Accumulated(padded)

\* 3 nibbles were thrown away, and the 5 nibbles F,F,F,B,0 sent after the
\* dummy read have loaded 0x0BFFF.
C13_Witness ==
    /\ afterDiscard
    /\ validAddressLoadedFlag
    /\ nibbleLog = <<15, 15, 15, 11, 0>>
    /\ address = 49151

\* ------------------------------------------------------------------------
\* C14: between handler invocations M0 is armed on its "clock" edge (rising)
\* if and only if a session is active, on its "start" edge (falling)
\* otherwise: the start pulse switches it to clock, every LOAD ADDRESS back
\* to start, a dummy read leaves it at start.
\* ------------------------------------------------------------------------
C14_SenseTracksSession ==
    /\ m0Sense = "rising" <=> readDataActive
    /\ m0Sense = "falling" <=> ~readDataActive
    /\ lastEvent \in {"start", "clock"} => m0Sense = "rising"
    /\ lastEvent \in {"reset", "load", "dummy"} => m0Sense = "falling"

\* A LOAD ADDRESS has cancelled a session and M0 is back on the start edge.
C14_Witness ==
    /\ lastEvent = "load"
    /\ cancelledActive
    /\ m0Sense = "falling"
    /\ ~readDataActive

\* ------------------------------------------------------------------------
\* C15: a READ DATA edge that is latched when the load-address handler
\* clears the M0 interrupt flag is discarded: the handler leaves no M0
\* interrupt pending, so a clock pulse is only ever handled in an active
\* session for an edge latched after the last LOAD ADDRESS, and the first M0
\* interrupt handled after a LOAD ADDRESS is a dummy read or a start pulse.
\* ------------------------------------------------------------------------
C15_PendingEdgeDiscarded ==
    [][ /\ (m0Flag /\ nibbleLog' # nibbleLog /\ lastEvent' = "load") =>
              (~m0Flag' /\ ~readDataActive' /\ ~add8Ddr' /\ clockCount' = 0)
        /\ (clockCount' = clockCount + 1) =>
              (readDataActive /\ m0Flag /\ lastEvent \in {"start", "clock"})
        /\ (lastEvent = "load" /\ lastEvent' # "load") =>
              (m0Flag /\ lastEvent' \in {"dummy", "start"}) ]_vars

\* A LOAD ADDRESS arrived while a clock edge of a session this PHROM was
\* driving was latched: nothing is pending afterwards.
C15_Witness ==
    /\ lastEvent = "load"
    /\ cancelledPending
    /\ cancelledDriving
    /\ ~m0Flag
    /\ ~readDataActive

\* ------------------------------------------------------------------------
\* C16: between handler invocations loadAddressNibble is in 0..4 and
\* currentBit in 0..7: the counter is 0 again after the 5th nibble and the
\* bit cursor 0 again after the 8th bit, for every interleaving of events.
\* ------------------------------------------------------------------------
C16_CountersInRange ==
    /\ loadAddressNibble \in 0..4
    /\ currentBit \in 0..7
    /\ (lastEvent = "load" /\ Len(nibbleLog) = 5) => loadAddressNibble = 0
    /\ (lastEvent = "clock" /\ clockCount % 8 = 0) => currentBit = 0

\* The 4th nibble of an address has arrived, after a session that was
\* cancelled with its bit cursor at 7.
C16_Witness ==
    /\ lastEvent = "load"
    /\ loadAddressNibble = 4
    /\ currentBit = 7

\* ------------------------------------------------------------------------
\* C17: a protocol-level reset event (a dummy read, or a LOAD ADDRESS
\* arriving in a session) resets the device state to its initial values:
\* every field equals the value it was given at startup.
\* ------------------------------------------------------------------------
C17_ResetRestoresStartup ==
    (lastEvent = "dummy" \/ (lastEvent = "load" /\ cancelledActive)) =>
        /\ address = 0
        /\ loadAddressNibble = 0
        /\ ~validAddressLoadedFlag
        /\ ~readDataActive
        /\ currentBit = 0
        /\ currentByte = 0
        /\ ~bankActiveFlag
        /\ add8InputFlag

\* C17 as the firmware has it: a dummy read writes address = 0 and
\* loadAddressNibble = 0 and nothing else; a LOAD ADDRESS arriving in a
\* session clears readDataActive and bankActiveFlag, releases ADD8 and
\* stores its nibble as the first one of a new address; neither touches
\* currentBit, currentByte or (before the 5th nibble) bankSelectNumber, which
\* keep the values the cancelled session left.
C17_ResetKeepsCursor ==
    [][ /\ (lastEvent' = "dummy" /\ m0Flag /\ ~m0Flag') =>
              /\ address' = 0
              /\ loadAddressNibble' = 0
              /\ ~validAddressLoadedFlag' /\ ~readDataActive' /\ ~bankActiveFlag'
              /\ add8InputFlag'
              /\ UNCHANGED <<currentBit, currentByte, bankSelectNumber>>
        /\ (readDataActive /\ lastEvent' = "load") =>
              /\ address' = nibbleLog'[1]
              /\ loadAddressNibble' = 1
              /\ ~validAddressLoadedFlag' /\ ~readDataActive' /\ ~bankActiveFlag'
              /\ add8InputFlag'
              /\ UNCHANGED <<currentBit, currentByte, bankSelectNumber>> ]_vars

\* A dummy read has been handled and the bit cursor and the byte are those
\* of a session cancelled earlier, at bit 3 of a byte of bank 2.
C17_Witness ==
    /\ lastEvent = "dummy"
    /\ address = 0
    /\ currentBit = 3
    /\ currentByte = 163
    /\ bankSelectNumber = 2

\* ------------------------------------------------------------------------
\* C18: between handler invocations ADD8 is driven only if a session is
\* active and bankActiveFlag is TRUE only if a session is active: with no
\* session (startup, address loading, after a dummy read) ADD8 is released
\* and bankActiveFlag is FALSE.
\* ------------------------------------------------------------------------
C18_IdleBusReleased ==
    /\ Driven => readDataActive
    /\ bankActiveFlag => readDataActive
    /\ ~readDataActive => (Released /\ add8Port = 0 /\ ~bankActiveFlag)

\* The second nibble of an address arrives after a session that was
\* cancelled while this PHROM drove a 1.
C18_Witness ==
    /\ ~readDataActive
    /\ lastEvent = "load"
    /\ loadAddressNibble = 2
    /\ currentBit = 1
    /\ currentByte = 163
    /\ Released

\* ------------------------------------------------------------------------
\* C19: between handler invocations a valid address implies
\* loadAddressNibble = 0 and an active session implies a valid address: no
\* session is active while an address is partially loaded, and a READ DATA
\* event in a session never takes the dummy-read path.
\* ------------------------------------------------------------------------
C19_ValidAndActiveOrdering ==
    /\ validAddressLoadedFlag => loadAddressNibble = 0
    /\ readDataActive => validAddressLoadedFlag
    /\ readDataActive => (loadAddressNibble = 0 /\ lastEvent \in {"start", "clock"})

\* A session is in its second byte.
C19_Witness ==
    /\ readDataActive
    /\ validAddressLoadedFlag
    /\ loadAddressNibble = 0
    /\ clockCount = 11

\* ------------------------------------------------------------------------
\* C20: every session starts at the address of the load that immediately
\* precedes it: a state with a valid address and no session has
\* address <= 0x3FFFF and bankSelectNumber = bits 17..14 of address and
\* directly follows the 5th LOAD ADDRESS of a load; a start pulse is only
\* possible there, so a cancelled session is never resumed or restarted
\* without a new complete load.
\* ------------------------------------------------------------------------
C20_SessionStartsAtLoadedAddress ==
    /\ (validAddressLoadedFlag /\ ~readDataActive) =>
          /\ address <= 262143
          /\ bankSelectNumber = BankBits(address)
          /\ lastEvent = "load"
          /\ Len(nibbleLog) = 5
    /\ readDataActive =>
          /\ Len(nibbleLog) = 5
          /\ sessionStart = Accumulated(nibbleLog) % 262144
    /\ lastEvent = "start" => address = sessionStart

\* The session at 0xFFFFF & 0x3FFFF = 0x3FFFF has just been started.
C20_Witness ==
    /\ lastEvent = "start"
    /\ nibbleLog = <<15, 15, 15, 15, 15>>
    /\ sessionStart = 262143
    /\ bankSelectNumber = 15

=============================================================================
